---- MODULE Spec2Model ----
(***************************************************************************)
(* Base-Han v1 streaming codec (src/src/basehan/v1.rs): the 8 -> 13 bit    *)
(* repacker BitCache13 with BaseHanEncoder on top of it, and the 13 -> 8   *)
(* bit repacker BitCache8 with BaseHanDecoder on top of it.                *)
(*                                                                         *)
(* One run of the model encodes a byte sequence chunk by chunk, finishes   *)
(* the encoder, and then feeds the produced code points (optionally with   *)
(* additional scalars) chunk by chunk to a decoder, which is finished at   *)
(* any point.                                                              *)
(*                                                                         *)
(* An Option<T> is modelled as a sequence: <<>> is None, <<x>> is Some(x). *)
(* u32 arithmetic keeps its width: a left shift drops the bits shifted     *)
(* past bit 31.                                                            *)
(***************************************************************************)
EXTENDS Integers, Sequences, FiniteSets, TLC

\* ------------------------------------------------------------------ bounds

\* Longest input, in bytes, built from SmallBytes.
MaxLen == 26

\* Most positions of such an input at which the byte differs from the byte
\* before it.
MaxChanges == 1

\* Longest chunk, in bytes, passed to one BaseHanEncoder::update call.
MaxChunk == 2

\* Most code points of the encoder's stream passed to one
\* BaseHanDecoder::update call.
MaxDecChunk == 2

\* Scalars that are not the next ones of the encoder's stream are offered to
\* the decoder only for inputs of at most this many bytes (or once the decoder
\* is closed), at most MaxExtra per chunk and MaxJunk nonzero ones per run.
MaxJunkInput == 2

MaxExtra == 1

MaxJunk == 2

\* --------------------------------------------------------------- constants

\* const ENDING_OFFSET: u32 = 0x6e00;
ENDING_OFFSET == 28160

\* crate::basehan::BASE_OFFSET (the start of the ordinary alphabet). The
\* declaration is outside the files at hand; 0x4E00 is the value for which the
\* ordinary block [BASE_OFFSET, BASE_OFFSET + 8191] ends right below
\* ENDING_OFFSET.
BASE_OFFSET == 19968

\* The bytes long inputs are built from.
SmallBytes == {0, 255}

\* Every value of a u8: inputs of one byte range over all of them.
AllBytes == 0..255

\* --------------------------------------------------------- u32 arithmetic

Pow2(k) == 2 ^ k

\* x << k on a u32: bits shifted past bit 31 are dropped.
Shl(x, k) == (x % Pow2(32 - k)) * Pow2(k)

\* x >> k
Shr(x, k) == x \div Pow2(k)

\* x & ((1 << k) - 1)
LowBits(x, k) == x % Pow2(k)

\* x as u8
AsU8(x) == x % 256

\* a | b
RECURSIVE BitOr(_, _)
BitOr(a, b) ==
    IF a = 0 THEN b
    ELSE IF b = 0 THEN a
    ELSE (IF a % 2 = 1 \/ b % 2 = 1 THEN 1 ELSE 0) + 2 * BitOr(a \div 2, b \div 2)

\* char::from_u32(u).is_some(): a Unicode scalar value.
IsChar(u) == u >= 0 /\ u <= 1114111 /\ ~(u >= 55296 /\ u <= 57343)

\* ------------------------------------------------------ BitCache13 (8 -> 13)

\* #[derive(Default)] struct BitCache13 { inner: u32, nbits: usize }
BitCache13_default == [inner |-> 0, nbits |-> 0]

\* Mutant of BitCache13_fill: the first arm is 0..=5 instead of 0..=4, so a
\* cache holding 5 bits swallows a byte without emitting a symbol.
BitCache13_fillLate(self, byte) ==
    LET remain_bits == (self.nbits + 8) % 13
        filled == BitOr(Shl(self.inner, 8), byte)
        output_char_u32 == Shr(filled, (self.nbits + 8) % 13)
    IN  IF self.nbits <= 5
        THEN [cache |-> [inner |-> filled, nbits |-> remain_bits],
              out |-> <<>>, panic |-> FALSE]
        ELSE [cache |-> [inner |-> LowBits(filled, remain_bits),
                         nbits |-> remain_bits],
              out |-> <<output_char_u32 + BASE_OFFSET>>, panic |-> FALSE]

\* Mutant of BitCache13_fill: the mask is (1 << (remain_bits + 1)) - 1, one
\* bit too wide.
BitCache13_fillWideMask(self, byte) ==
    LET remain_bits == (self.nbits + 8) % 13
        filled == BitOr(Shl(self.inner, 8), byte)
        output_char_u32 == Shr(filled, (self.nbits + 8) % 13)
    IN  IF self.nbits <= 4
        THEN [cache |-> [inner |-> filled, nbits |-> remain_bits],
              out |-> <<>>, panic |-> FALSE]
        ELSE [cache |-> [inner |-> LowBits(filled, remain_bits + 1),
                         nbits |-> remain_bits],
              out |-> <<output_char_u32 + BASE_OFFSET>>, panic |-> FALSE]

\* BitCache13::fill(&mut self, byte) -> Option<char>. The result holds the
\* cache after the call, the returned option and whether the call panicked
\* (the `13..` arm, or the expect on char::from_u32).
BitCache13_fill(self, byte) ==
    LET remain_bits == (self.nbits + 8) % 13
        filled == BitOr(Shl(self.inner, 8), byte)
        output_char_u32 == Shr(filled, (self.nbits + 8) % 13)
    IN  IF self.nbits <= 4
        THEN [cache |-> [inner |-> filled, nbits |-> remain_bits],
              out |-> <<>>, panic |-> FALSE]
        ELSE IF self.nbits <= 12
        THEN IF IsChar(output_char_u32 + BASE_OFFSET)
             THEN [cache |-> [inner |-> LowBits(filled, remain_bits),
                              nbits |-> remain_bits],
                   out |-> <<output_char_u32 + BASE_OFFSET>>, panic |-> FALSE]
             ELSE [cache |-> [inner |-> LowBits(filled, remain_bits),
                              nbits |-> self.nbits],
                   out |-> <<>>, panic |-> TRUE]
        ELSE [cache |-> self, out |-> <<>>, panic |-> TRUE]

\* Mutant of BitCache13_dump: the leftover is offset by BASE_OFFSET instead
\* of ENDING_OFFSET.
BitCache13_dumpBase(self) == <<self.inner + BASE_OFFSET>>

\* BitCache13::dump(self) -> char, as a code point; <<>> when the expect on
\* char::from_u32 panics.
BitCache13_dump(self) ==
    LET out_char_u32 == self.inner + ENDING_OFFSET
    IN  IF IsChar(out_char_u32) THEN <<out_char_u32>> ELSE <<>>

\* ---------------------------------------------------------- BaseHanEncoder

\* BaseHanEncoder::new()
BaseHanEncoder_new == [buf_out |-> <<>>, remainings |-> BitCache13_default]

\* The loop of BaseHanEncoder::update over buf_in[i..]: each byte is filled
\* into remainings and a returned char is pushed to buf_out.
RECURSIVE EncoderLoop(_, _, _)
EncoderLoop(self, buf_in, i) ==
    IF i > Len(buf_in) THEN [enc |-> self, panic |-> FALSE]
    ELSE LET r == BitCache13_fill(self.remainings, buf_in[i])
         IN  IF r.panic THEN [enc |-> self, panic |-> TRUE]
             ELSE EncoderLoop([buf_out |-> self.buf_out \o r.out,
                               remainings |-> r.cache], buf_in, i + 1)

\* Mutant of BaseHanEncoder_update: every call starts from an empty bit
\* cache.
BaseHanEncoder_updateFresh(self, chunk) ==
    LET r == EncoderLoop([buf_out |-> self.buf_out,
                          remainings |-> BitCache13_default], chunk, 1)
    IN  [enc |-> [buf_out |-> <<>>, remainings |-> r.enc.remainings],
         out |-> r.enc.buf_out, panic |-> r.panic]

\* BaseHanEncoder::update(&mut self, chunk) -> Ok(Vec<char>): the encoder
\* after the call (buf_out replaced by a new Vec) and the returned buffer.
BaseHanEncoder_update(self, chunk) ==
    LET r == EncoderLoop(self, chunk, 1)
    IN  [enc |-> [buf_out |-> <<>>, remainings |-> r.enc.remainings],
         out |-> r.enc.buf_out, panic |-> r.panic]

\* BaseHanEncoder::finish(self) -> char
BaseHanEncoder_finish(self) == BitCache13_dump(self.remainings)

\* ------------------------------------------------------- BitCache8 (13 -> 8)

\* #[derive(Default)] struct BitCache8 { inner: u32, nbits: usize }
BitCache8_default == [inner |-> 0, nbits |-> 0]

\* Mutant of BitCache8_fill: the mask is (1 << (remain_bits + 1)) - 1, one bit
\* too wide.
BitCache8_fillWideMask(self, bits) ==
    LET remain_bits == (self.nbits + 13) % 8
        filled == BitOr(Shl(self.inner, 13), bits)
    IN  IF self.nbits <= 2
        THEN [cache |-> [inner |-> LowBits(filled, remain_bits + 1),
                         nbits |-> (self.nbits + 13) % 8],
              out |-> <<AsU8(Shr(filled, remain_bits))>>]
        ELSE [cache |-> [inner |-> LowBits(filled, remain_bits + 1),
                         nbits |-> (self.nbits + 13) % 8],
              out |-> <<AsU8(Shr(filled, remain_bits + 8)),
                        AsU8(Shr(filled, remain_bits))>>]

\* Mutant of BitCache8_fill: the Single arm is 0..=3 instead of 0..=2, so a
\* cache holding 3 bits returns one byte of the sixteen it holds.
BitCache8_fillSingleLate(self, bits) ==
    LET remain_bits == (self.nbits + 13) % 8
        filled == BitOr(Shl(self.inner, 13), bits)
    IN  IF self.nbits <= 3
        THEN [cache |-> [inner |-> LowBits(filled, remain_bits),
                         nbits |-> (self.nbits + 13) % 8],
              out |-> <<AsU8(Shr(filled, remain_bits))>>]
        ELSE [cache |-> [inner |-> LowBits(filled, remain_bits),
                         nbits |-> (self.nbits + 13) % 8],
              out |-> <<AsU8(Shr(filled, remain_bits + 8)),
                        AsU8(Shr(filled, remain_bits))>>]

\* BitCache8::fill(&mut self, bits) -> BitCache8Out: the cache after the call
\* and the returned bytes, one for Single and two for Double.
BitCache8_fill(self, bits) ==
    LET remain_bits == (self.nbits + 13) % 8
        filled == BitOr(Shl(self.inner, 13), bits)
    IN  IF self.nbits <= 2
        THEN [cache |-> [inner |-> LowBits(filled, remain_bits),
                         nbits |-> (self.nbits + 13) % 8],
              out |-> <<AsU8(Shr(filled, remain_bits))>>]
        ELSE [cache |-> [inner |-> LowBits(filled, remain_bits),
                         nbits |-> (self.nbits + 13) % 8],
              out |-> <<AsU8(Shr(filled, remain_bits + 8)),
                        AsU8(Shr(filled, remain_bits))>>]

\* BitCache8::dump(self) -> Option<u8>
BitCache8_dump(self) ==
    IF self.inner # 0 THEN <<AsU8(self.inner)>> ELSE <<>>

\* ---------------------------------------------------------- BaseHanDecoder

\* BaseHanDecoder::new()
BaseHanDecoder_new ==
    [buf_out |-> <<>>, remainings |-> BitCache8_default, eof |-> FALSE]

\* Mutant of DecoderLoop: the terminal symbol's offset is shifted by
\* nbits + 4.
RECURSIVE DecoderLoopShift4(_, _, _)
DecoderLoopShift4(self, buf_in, i) ==
    IF i > Len(buf_in) THEN [dec |-> self, consumed |-> i - 1]
    ELSE LET c == buf_in[i]
             eof == c >= ENDING_OFFSET
             bits == IF eof
                     THEN Shl(c - ENDING_OFFSET, self.remainings.nbits + 4)
                     ELSE c - BASE_OFFSET
             r == BitCache8_fill(self.remainings, bits)
             next == [buf_out |-> self.buf_out \o r.out,
                      remainings |-> r.cache, eof |-> eof]
         IN  IF c = 0 THEN [dec |-> self, consumed |-> i - 1]
             ELSE IF eof THEN [dec |-> next, consumed |-> i]
             ELSE DecoderLoopShift4(next, buf_in, i + 1)

\* Mutant of DecoderLoop: no break after the terminal symbol.
RECURSIVE DecoderLoopNoBreak(_, _, _)
DecoderLoopNoBreak(self, buf_in, i) ==
    IF i > Len(buf_in) THEN [dec |-> self, consumed |-> i - 1]
    ELSE LET c == buf_in[i]
             eof == c >= ENDING_OFFSET
             bits == IF eof
                     THEN Shl(c - ENDING_OFFSET, self.remainings.nbits + 5)
                     ELSE c - BASE_OFFSET
             r == BitCache8_fill(self.remainings, bits)
             next == [buf_out |-> self.buf_out \o r.out,
                      remainings |-> r.cache, eof |-> eof]
         IN  IF c = 0 THEN [dec |-> self, consumed |-> i - 1]
             ELSE DecoderLoopNoBreak(next, buf_in, i + 1)

\* Mutant of DecoderLoop: a scalar 0 is skipped (continue) instead of ending
\* the loop.
RECURSIVE DecoderLoopSkipZero(_, _, _)
DecoderLoopSkipZero(self, buf_in, i) ==
    IF i > Len(buf_in) THEN [dec |-> self, consumed |-> i - 1]
    ELSE LET c == buf_in[i]
             eof == c >= ENDING_OFFSET
             bits == IF eof
                     THEN Shl(c - ENDING_OFFSET, self.remainings.nbits + 5)
                     ELSE c - BASE_OFFSET
             r == BitCache8_fill(self.remainings, bits)
             next == [buf_out |-> self.buf_out \o r.out,
                      remainings |-> r.cache, eof |-> eof]
         IN  IF c = 0 THEN DecoderLoopSkipZero(self, buf_in, i + 1)
             ELSE IF eof THEN [dec |-> next, consumed |-> i]
             ELSE DecoderLoopSkipZero(next, buf_in, i + 1)

\* The loop of BaseHanDecoder::update over buf_in[i..]: the decoder when the
\* loop ends and the number of scalars it passed to BitCache8::fill.
\* A scalar below BASE_OFFSET other than 0 underflows `c -= BASE_OFFSET`; no
\* chunk of this model holds one.
RECURSIVE DecoderLoop(_, _, _)
DecoderLoop(self, buf_in, i) ==
    IF i > Len(buf_in) THEN [dec |-> self, consumed |-> i - 1]
    ELSE LET c == buf_in[i]
             eof == c >= ENDING_OFFSET
             bits == IF eof
                     THEN Shl(c - ENDING_OFFSET, self.remainings.nbits + 5)
                     ELSE c - BASE_OFFSET
             r == BitCache8_fill(self.remainings, bits)
             next == [buf_out |-> self.buf_out \o r.out,
                      remainings |-> r.cache, eof |-> eof]
         IN  IF c = 0 THEN [dec |-> self, consumed |-> i - 1]
             ELSE IF eof THEN [dec |-> next, consumed |-> i]
             ELSE DecoderLoop(next, buf_in, i + 1)

\* Mutant of BaseHanDecoder_update: no check of eof on entry.
BaseHanDecoder_updateNoGuard(self, chunk) ==
    LET r == DecoderLoop(self, chunk, 1)
    IN  [dec |-> [buf_out |-> <<>>, remainings |-> r.dec.remainings,
                  eof |-> r.dec.eof],
         res |-> "ok", out |-> r.dec.buf_out, consumed |-> r.consumed]

\* Mutant of BaseHanDecoder_update: eof is checked per scalar, after the
\* check for 0, so an empty chunk or a chunk that starts with 0 is accepted
\* by a closed decoder.
BaseHanDecoder_updateLateGuard(self, chunk) ==
    IF self.eof /\ chunk # <<>> /\ chunk[1] # 0
    THEN [dec |-> self, res |-> "err", out |-> <<>>, consumed |-> 0]
    ELSE LET r == IF self.eof THEN [dec |-> self, consumed |-> 0]
                  ELSE DecoderLoop(self, chunk, 1)
         IN  [dec |-> [buf_out |-> <<>>, remainings |-> r.dec.remainings,
                       eof |-> r.dec.eof],
              res |-> "ok", out |-> r.dec.buf_out, consumed |-> r.consumed]

\* BaseHanDecoder::update(&mut self, chunk) -> Result<Vec<u8>, BaseHanError>:
\* the decoder after the call, "ok" or "err" (EndOfFile), the returned
\* bytes, and the number of scalars of the chunk that were consumed.
BaseHanDecoder_update(self, chunk) ==
    IF self.eof
    THEN [dec |-> self, res |-> "err", out |-> <<>>, consumed |-> 0]
    ELSE LET r == DecoderLoop(self, chunk, 1)
         IN  [dec |-> [buf_out |-> <<>>, remainings |-> r.dec.remainings,
                       eof |-> r.dec.eof],
              res |-> "ok", out |-> r.dec.buf_out, consumed |-> r.consumed]

\* BaseHanDecoder::finish(self) -> Option<u8>
BaseHanDecoder_finish(self) == BitCache8_dump(self.remainings)

\* ------------------------------------------------------------ state machine

VARIABLES
    input,      \* the bytes passed to BaseHanEncoder::update so far, in order
    encoder,    \* the BaseHanEncoder
    encOut,     \* the code points returned by the update calls, concatenated
    phase,      \* "enc": encoding; "dec": decoding; "done": decoder finished
    wire,       \* the encoder's stream: encOut followed by finish's code point
    pos,        \* how many code points of wire were passed to the decoder
    decoder,    \* the BaseHanDecoder
    decOut,     \* the bytes returned by the decoder's update calls, concatenated
    lastRes,    \* the last decoder update's result: "none", "ok" or "err"
    trailing,   \* nonzero scalars of the last chunk placed after a terminal
                \* symbol of that chunk (with no 0 before the terminal symbol)
    dropped,    \* nonzero scalars of the last chunk left unconsumed by an
                \* update call that consumed a terminal symbol
    junk,       \* how many nonzero scalars outside wire were passed to the decoder
    faithful,   \* the decoder was passed code points of wire only
    leftover,   \* what BaseHanDecoder::finish returned
    crashed,    \* a call panicked
    nread,      \* the bytes of the text the decode driver has read from stdin
    received    \* the nonzero scalars the decode driver passed to update

vars == <<input, encoder, encOut, phase, wire, pos, decoder, decOut, lastRes,
          trailing, dropped, junk, faithful, leftover, crashed, nread,
          received>>

encVars == <<input, encoder, encOut>>

decVars == <<pos, decoder, decOut, lastRes, trailing, dropped, junk, faithful,
            leftover, nread, received>>

\* The number of positions of s whose byte differs from the byte before it.
Changes(s) == Cardinality({i \in 2..Len(s) : s[i] # s[i - 1]})

\* The inputs of the model: up to MaxLen bytes of SmallBytes in at most
\* MaxChanges + 1 runs of equal bytes, or one byte of any value.
Allowed(s) ==
    \/ /\ Len(s) <= MaxLen
       /\ \A i \in 1..Len(s) : s[i] \in SmallBytes
       /\ Changes(s) <= MaxChanges
    \/ Len(s) <= 1 /\ \A i \in 1..Len(s) : s[i] \in AllBytes

\* The chunks passed to BaseHanEncoder::update.
EncChunks ==
    UNION {[1..n -> SmallBytes] : n \in 0..MaxChunk} \cup {<<b>> : b \in AllBytes}

\* Scalars outside the encoder's stream: the chunk terminator 0, an ordinary
\* symbol and a terminal symbol.
Extras == {0, BASE_OFFSET + 1, ENDING_OFFSET + 1}

ExtraSeqs == UNION {[1..n -> Extras] : n \in 0..MaxExtra}

\* The number of nonzero scalars of s[from..].
RECURSIVE Nonzero(_, _)
Nonzero(s, from) ==
    IF from > Len(s) THEN 0
    ELSE (IF s[from] # 0 THEN 1 ELSE 0) + Nonzero(s, from + 1)

\* The number of nonzero scalars of s that follow its first terminal symbol
\* at or after position i, 0 when a scalar 0 comes first or there is none.
RECURSIVE AfterTerminal(_, _)
AfterTerminal(s, i) ==
    IF i > Len(s) \/ s[i] = 0 THEN 0
    ELSE IF s[i] >= ENDING_OFFSET THEN Nonzero(s, i + 1)
    ELSE AfterTerminal(s, i + 1)

Min(a, b) == IF a <= b THEN a ELSE b

Init ==
    /\ input = <<>>
    /\ encoder = BaseHanEncoder_new
    /\ encOut = <<>>
    /\ phase = "enc"
    /\ wire = <<>>
    /\ pos = 0
    /\ decoder = BaseHanDecoder_new
    /\ decOut = <<>>
    /\ lastRes = "none"
    /\ trailing = 0
    /\ dropped = 0
    /\ junk = 0
    /\ faithful = TRUE
    /\ leftover = <<>>
    /\ crashed = FALSE
    /\ nread = 0
    /\ received = <<>>

\* let out = encoder.update(&buf[..n]).unwrap();
EncUpdate ==
    /\ phase = "enc" /\ ~crashed
    /\ \E chunk \in EncChunks :
        /\ Allowed(input \o chunk)
        /\ LET r == BaseHanEncoder_update(encoder, chunk)
           IN  /\ input' = input \o chunk
               /\ encoder' = r.enc
               /\ encOut' = encOut \o r.out
               /\ crashed' = r.panic
    /\ UNCHANGED <<phase, wire, decVars>>

\* let out = [encoder.finish()]; the code point closes the stream, which is
\* then handed to a decoder.
EncFinish ==
    /\ phase = "enc" /\ ~crashed
    /\ LET t == BaseHanEncoder_finish(encoder)
       IN  /\ wire' = encOut \o t
           /\ crashed' = (t = <<>>)
    /\ phase' = "dec"
    /\ UNCHANGED <<encVars, decVars>>

\* let out = decoder.update(char_buf): the chunk is the next j code points of
\* the stream followed by the scalars of extra.
DecUpdate ==
    /\ phase = "dec" /\ ~crashed
    /\ \E j \in 0..Min(MaxDecChunk, Len(wire) - pos), extra \in ExtraSeqs :
        /\ extra # <<>> =>
              /\ junk + Nonzero(extra, 1) <= MaxJunk
              /\ decoder.eof \/ Len(input) <= MaxJunkInput
        /\ LET chunk == SubSeq(wire, pos + 1, pos + j) \o extra
               r == BaseHanDecoder_update(decoder, chunk)
           IN  /\ decoder' = r.dec
               /\ decOut' = decOut \o r.out
               /\ lastRes' = r.res
               /\ trailing' = AfterTerminal(chunk, 1)
               /\ dropped' = IF r.res = "ok" /\ r.dec.eof
                             THEN Nonzero(chunk, r.consumed + 1) ELSE 0
               /\ pos' = pos + j
               /\ junk' = junk + Nonzero(extra, 1)
               /\ faithful' = (faithful /\ extra = <<>>)
    /\ UNCHANGED <<encVars, phase, wire, leftover, crashed, nread, received>>

\* decoder.finish()
DecFinish ==
    /\ phase = "dec" /\ ~crashed
    /\ leftover' = BaseHanDecoder_finish(decoder)
    /\ phase' = "done"
    /\ UNCHANGED <<encVars, wire, pos, decoder, decOut, lastRes, trailing,
                   dropped, junk, faithful, crashed, nread, received>>

Next == EncUpdate \/ EncFinish \/ DecUpdate \/ DecFinish

Spec == Init /\ [][Next]_vars

\* ------------------------------------------- the decoder on arbitrary chunks

\* Most scalars in the text handed to the decoder.
MaxWire == 4

\* The scalars of that text: the chunk terminator 0, the ordinary symbols of
\* values 1 and 8191, and the terminal symbol of offset 255.
DecAlphabet == {0, BASE_OFFSET + 1, BASE_OFFSET + 8191, ENDING_OFFSET + 255}

DecWires == UNION {[1..n -> DecAlphabet] : n \in 0..MaxWire}

\* A fresh decoder and any text over DecAlphabet, not an encoder's stream.
DecInit ==
    /\ input = <<>>
    /\ encoder = BaseHanEncoder_new
    /\ encOut = <<>>
    /\ phase = "dec"
    /\ wire \in DecWires
    /\ pos = 0
    /\ decoder = BaseHanDecoder_new
    /\ decOut = <<>>
    /\ lastRes = "none"
    /\ trailing = 0
    /\ dropped = 0
    /\ junk = 0
    /\ faithful = TRUE
    /\ leftover = <<>>
    /\ crashed = FALSE
    /\ nread = 0
    /\ received = <<>>

\* let out = decoder.update(char_buf): the chunk is the next j scalars of the
\* text, wire[pos + 1 .. pos'], and may be empty.
DecFeed ==
    /\ phase = "dec" /\ ~crashed
    /\ \E j \in 0..Min(MaxDecChunk, Len(wire) - pos) :
        LET chunk == SubSeq(wire, pos + 1, pos + j)
            r == BaseHanDecoder_update(decoder, chunk)
        IN  /\ decoder' = r.dec
            /\ decOut' = decOut \o r.out
            /\ lastRes' = r.res
            /\ trailing' = AfterTerminal(chunk, 1)
            /\ dropped' = IF r.res = "ok" /\ r.dec.eof
                          THEN Nonzero(chunk, r.consumed + 1) ELSE 0
            /\ pos' = pos + j
    /\ UNCHANGED <<encVars, phase, wire, junk, faithful, leftover, crashed,
                   nread, received>>

DecNext == DecFeed \/ DecFinish

DecSpec == DecInit /\ [][DecNext]_vars

\* ---------------------------------------------------------- the decode driver

\* args.chunk_size: the size of the driver's read buffer, in bytes.
chunk_size == 4

\* Most scalars in the text on stdin.
MaxText == 3

\* String::from_iter(out).as_bytes(): the UTF-8 bytes of the scalar c.
Utf8(c) ==
    IF c < 128 THEN <<c>>
    ELSE IF c < 2048 THEN <<192 + (c \div 64), 128 + (c % 64)>>
    ELSE IF c < 65536
    THEN <<224 + (c \div 4096), 128 + ((c \div 64) % 64), 128 + (c % 64)>>
    ELSE <<240 + (c \div 262144), 128 + ((c \div 4096) % 64),
           128 + ((c \div 64) % 64), 128 + (c % 64)>>

\* The UTF-8 bytes of a text.
RECURSIVE Utf8Text(_)
Utf8Text(s) == IF s = <<>> THEN <<>> ELSE Utf8(Head(s)) \o Utf8Text(Tail(s))

\* The length of the UTF-8 sequence that the byte b starts, 0 when b starts
\* none (a continuation byte, 0xC0, 0xC1, 0xF5..0xFF).
Utf8Width(b) ==
    IF b < 128 THEN 1
    ELSE IF b \in 194..223 THEN 2
    ELSE IF b \in 224..239 THEN 3
    ELSE IF b \in 240..244 THEN 4
    ELSE 0

\* b is a valid second byte after the lead byte: no overlong form, no
\* surrogate, nothing above U+10FFFF.
Utf8SecondOk(lead, b) ==
    IF lead = 224 THEN b \in 160..191
    ELSE IF lead = 237 THEN b \in 128..159
    ELSE IF lead = 240 THEN b \in 144..191
    ELSE IF lead = 244 THEN b \in 128..143
    ELSE b \in 128..191

\* String::from_utf8_lossy(&buf).chars() from buf[i] on: each valid sequence
\* gives its scalar, and each maximal prefix of a valid sequence that is cut
\* short, like each byte that starts none, gives one U+FFFD.
RECURSIVE FromUtf8Lossy(_, _)
FromUtf8Lossy(buf, i) ==
    IF i > Len(buf) THEN <<>>
    ELSE LET b == buf[i]
             w == Utf8Width(b)
             Ok(k) == /\ i + k <= Len(buf)
                      /\ IF k = 1 THEN Utf8SecondOk(b, buf[i + 1])
                         ELSE buf[i + k] \in 128..191
             matched == IF w <= 1 \/ ~Ok(1) THEN 1
                        ELSE IF w = 2 \/ ~Ok(2) THEN 2
                        ELSE IF w = 3 \/ ~Ok(3) THEN 3
                        ELSE 4
             scalar == IF w = 1 THEN b
                       ELSE IF w = 2 THEN (b % 32) * 64 + (buf[i + 1] % 64)
                       ELSE IF w = 3
                       THEN (b % 16) * 4096 + (buf[i + 1] % 64) * 64
                            + (buf[i + 2] % 64)
                       ELSE (b % 8) * 262144 + (buf[i + 1] % 64) * 4096
                            + (buf[i + 2] % 64) * 64 + (buf[i + 3] % 64)
         IN  <<IF w > 0 /\ matched = w THEN scalar ELSE 65533>>
                 \o FromUtf8Lossy(buf, i + matched)

\* The nonzero scalars of s, in order.
NonzeroScalars(s) == SelectSeq(s, LAMBDA c : c # 0)

\* s is an initial part of t.
IsPrefix(s, t) == Len(s) <= Len(t) /\ s = SubSeq(t, 1, Len(s))

\* The texts on stdin: ordinary and terminal symbols in any order.
DriverTexts ==
    UNION {[1..n -> {BASE_OFFSET + 1, BASE_OFFSET + 8191, ENDING_OFFSET + 255}]
               : n \in 0..MaxText}

\* main.rs, v1 with args.decode: a fresh decoder and a text on stdin.
DriverInit ==
    /\ input = <<>>
    /\ encoder = BaseHanEncoder_new
    /\ encOut = <<>>
    /\ phase = "dec"
    /\ wire \in DriverTexts
    /\ pos = 0
    /\ decoder = BaseHanDecoder_new
    /\ decOut = <<>>
    /\ lastRes = "none"
    /\ trailing = 0
    /\ dropped = 0
    /\ junk = 0
    /\ faithful = TRUE
    /\ leftover = <<>>
    /\ crashed = FALSE
    /\ nread = 0
    /\ received = <<>>

\* One turn of the loop with n > 0: buf.fill(0); read returns any n from 1
\* to chunk_size bytes of what is left of the text; the whole buffer, its
\* zero padding included, is converted with from_utf8_lossy and passed to
\* decoder.update(char_buf).unwrap().
DriverRead ==
    /\ phase = "dec" /\ ~crashed
    /\ \E n \in 1..Min(chunk_size, Len(Utf8Text(wire)) - nread) :
        LET buf == SubSeq(Utf8Text(wire), nread + 1, nread + n)
                       \o [k \in 1..(chunk_size - n) |-> 0]
            char_buf == FromUtf8Lossy(buf, 1)
            r == BaseHanDecoder_update(decoder, char_buf)
        IN  /\ nread' = nread + n
            /\ received' = received \o NonzeroScalars(char_buf)
            /\ decoder' = r.dec
            /\ decOut' = decOut \o r.out
            /\ lastRes' = r.res
            /\ crashed' = (r.res = "err")
            /\ trailing' = AfterTerminal(char_buf, 1)
            /\ dropped' = IF r.res = "ok" /\ r.dec.eof
                          THEN Nonzero(char_buf, r.consumed + 1) ELSE 0
            /\ faithful' = IsPrefix(received', wire)
    /\ UNCHANGED <<encVars, phase, wire, pos, junk, leftover>>

\* The turn of the loop with n == 0, at the end of the text: a leftover
\* byte from decoder.finish() panics.
DriverEof ==
    /\ phase = "dec" /\ ~crashed
    /\ nread = Len(Utf8Text(wire))
    /\ leftover' = BaseHanDecoder_finish(decoder)
    /\ crashed' = (leftover' # <<>>)
    /\ phase' = "done"
    /\ UNCHANGED <<encVars, wire, pos, decoder, decOut, lastRes, trailing,
                   dropped, junk, faithful, nread, received>>

DriverNext == DriverRead \/ DriverEof

DriverSpec == DriverInit /\ [][DriverNext]_vars

\* ------------------------------------------------------------------ claims

\* The decoder was passed the whole stream of the encoder and nothing else.
WholeStream == phase # "enc" /\ ~crashed /\ faithful /\ pos = Len(wire)

\* The decoder was passed the first pos ordinary symbols of the stream, not
\* its terminal symbol, and nothing else.
OrdinaryPrefix == phase # "enc" /\ ~crashed /\ faithful /\ pos <= Len(encOut)

\* C1 -- Round trip: once a fresh decoder has been passed the whole stream
\* that a fresh encoder produced for the input (the ordinary symbols, then
\* the terminal symbol), the bytes it returned are exactly the input.
RoundTrip == WholeStream => decOut = input

\* The encoder is at work or has just finished: no decoder call was made yet.
\* (The decoder's actions leave input, encoder, encOut and wire unchanged.)
Encoding == phase = "enc" \/ (phase = "dec" /\ lastRes = "none")

\* C2 -- Encoder chunk invariance: however the input was split into chunks
\* (empty ones included), the concatenated outputs of update and the bit
\* cache after the last chunk are those of a fresh encoder given the whole
\* input in one update call, and so is the code point of finish.
EncoderChunkInvariance ==
    Encoding =>
        /\ [enc |-> encoder, out |-> encOut, panic |-> FALSE]
              = BaseHanEncoder_update(BaseHanEncoder_new, input)
        /\ phase # "enc" => wire = encOut \o BaseHanEncoder_finish(encoder)

\* C2 witness: an input of 26 bytes, passed in at least 13 chunks, encoded
\* and finished.
EncoderChunkInvarianceWitness ==
    /\ Len(input) = 26 /\ Len(input) > MaxChunk
    /\ input[1] = 255 /\ input[26] = 0
    /\ phase = "dec" /\ lastRes = "none" /\ Len(wire) = 17

\* C3 -- Bit conservation: 13 bits per ordinary symbol emitted so far plus
\* the bits held in the bit cache are the 8 bits of every byte fed.
BitConservation ==
    13 * Len(encOut) + encoder.remainings.nbits = 8 * Len(input)

\* C3 witness: 5 bytes fed, 3 symbols emitted, 1 bit held.
BitConservationWitness ==
    Len(input) = 5 /\ Len(encOut) = 3 /\ encoder.remainings.nbits = 1

\* C4 -- Truncation detection: a decoder passed only the first k ordinary
\* symbols of a stream, with 13 * k not a multiple of 8, returns a leftover
\* byte from finish.
TruncationDetected ==
    (phase = "done" /\ OrdinaryPrefix /\ (13 * pos) % 8 # 0) => leftover # <<>>

\* C5 -- EndOfStream after the terminal: a closed decoder stays closed, and
\* every update call on it that offers a nonzero scalar (one more code point
\* of the stream, or a nonzero scalar outside it) returns EndOfFile, returns
\* no bytes and leaves the bit cache and the eof flag as they were.
EndOfStreamAfterTerminal ==
    [][/\ decoder.eof => decoder'.eof
       /\ (decoder.eof /\ (pos' > pos \/ junk' > junk)) =>
             /\ lastRes' = "err"
             /\ decOut' = decOut
             /\ decoder' = decoder]_vars

\* C5 witness: the whole stream of a one-byte input was decoded, then the
\* closed decoder was offered a nonzero scalar and returned EndOfFile.
EndOfStreamAfterTerminalWitness ==
    /\ phase = "dec" /\ pos = Len(wire) /\ input = <<255>> /\ decOut = input
    /\ decoder.eof /\ junk = 1 /\ lastRes = "err"

\* C6 -- Trailing input is rejected: whenever nonzero scalars follow the
\* terminal symbol, in the same chunk or in a later call, update returns an
\* error.
TrailingInputRejected == trailing > 0 => lastRes = "err"

\* What the code does about trailing input (the behaviour C6 and C20 run
\* into): every update call on a closed decoder returns EndOfFile
\* and changes nothing; an update call on an open decoder returns without
\* error, and when nonzero scalars follow a terminal symbol inside its chunk
\* it closes the decoder and leaves exactly those scalars unconsumed.
TrailingInputAfterTerminal ==
    [][(phase = "dec" /\ phase' = "dec") =>
          /\ decoder.eof =>
                lastRes' = "err" /\ decoder' = decoder /\ decOut' = decOut
          /\ ~decoder.eof =>
                /\ lastRes' = "ok"
                /\ dropped' = trailing'
                /\ trailing' > 0 => decoder'.eof]_vars

\* That behaviour happening: an open decoder was passed a chunk with a nonzero scalar after
\* the terminal symbol; update returned without error and ignored it.
TrailingInputAfterTerminalWitness ==
    /\ phase = "dec" /\ pos = Len(wire) /\ Len(wire) = 2
    /\ trailing = 1 /\ dropped = 1 /\ lastRes = "ok" /\ decoder.eof

\* C7 -- Alphabet disjointness: with BASE_OFFSET + 8191 < ENDING_OFFSET,
\* every code point returned by the encoder's update lies in
\* [BASE_OFFSET, BASE_OFFSET + 8191], the code point of finish lies in
\* [ENDING_OFFSET, ENDING_OFFSET + 8191], and so c >= ENDING_OFFSET holds of
\* the last code point of the stream only.
AlphabetDisjoint ==
    BASE_OFFSET + 8191 < ENDING_OFFSET =>
        /\ \A i \in 1..Len(encOut) :
              /\ encOut[i] >= BASE_OFFSET /\ encOut[i] <= BASE_OFFSET + 8191
              /\ ~(encOut[i] >= ENDING_OFFSET /\ encOut[i] <= ENDING_OFFSET + 8191)
        /\ phase # "enc" =>
              /\ Len(wire) = Len(encOut) + 1
              /\ wire[Len(wire)] >= ENDING_OFFSET
              /\ wire[Len(wire)] <= ENDING_OFFSET + 8191
              /\ \A i \in 1..Len(wire) :
                    wire[i] >= ENDING_OFFSET <=> i = Len(wire)

\* C7 witness: a finished stream with the highest ordinary symbol and a
\* terminal symbol with a nonzero offset.
AlphabetDisjointWitness ==
    /\ phase = "dec" /\ Len(wire) >= 3
    /\ wire[1] = BASE_OFFSET + 8191
    /\ wire[Len(wire)] > ENDING_OFFSET

\* C8 -- A well-formed stream drains to zero: once the decoder has consumed
\* the whole stream of the encoder, its retained value is 0 and finish
\* returns None.
DrainsToZero ==
    WholeStream =>
        /\ decoder.remainings.inner = 0
        /\ BaseHanDecoder_finish(decoder) = <<>>
        /\ phase = "done" => leftover = <<>>

\* C8 witness: the stream of 11 bytes of 0xFF (10 leftover bits in the
\* encoder, 6 retained bits in the decoder) was consumed whole and the
\* decoder finished.
DrainsToZeroWitness ==
    /\ WholeStream /\ phase = "done" /\ decoder.eof
    /\ Len(input) = 11 /\ \A i \in 1..11 : input[i] = 255
    /\ leftover = <<>>

\* C9 -- Single-byte streams: for an input of one byte b, update emits no
\* ordinary symbol and finish gives ENDING_OFFSET + b; a decoder passed that
\* one code point returns exactly <<b>> and its finish returns None.
SingleByte ==
    Len(input) = 1 =>
        /\ encOut = <<>>
        /\ phase # "enc" => wire = <<ENDING_OFFSET + input[1]>>
        /\ WholeStream =>
              /\ decOut = input
              /\ BaseHanDecoder_finish(decoder) = <<>>
              /\ phase = "done" => leftover = <<>>

\* C9 witness: the byte 0xA7 was encoded, decoded and the decoder finished.
SingleByteWitness ==
    /\ input = <<167>> /\ WholeStream /\ phase = "done"
    /\ wire = <<ENDING_OFFSET + 167>> /\ decOut = <<167>> /\ leftover = <<>>

\* C10 -- Inputs of 13 * m bytes: update has emitted exactly 8 * m ordinary
\* symbols and finish gives the one code point ENDING_OFFSET, offset 0.
MultipleOf13 ==
    Len(input) % 13 = 0 =>
        /\ Len(encOut) = 8 * (Len(input) \div 13)
        /\ BaseHanEncoder_finish(encoder) = <<ENDING_OFFSET>>
        /\ phase # "enc" =>
              /\ Len(wire) = 8 * (Len(input) \div 13) + 1
              /\ wire[Len(wire)] = ENDING_OFFSET

\* C10 witness: 26 bytes of 0xFF were encoded into 16 ordinary symbols and
\* the encoder finished.
MultipleOf13Witness ==
    /\ Len(input) = 26 /\ \A i \in 1..26 : input[i] = 255
    /\ phase = "dec" /\ Len(wire) = 17

\* Most bytes at the end of an input in which a second input differs from it.
MaxTail == 1

\* The stream of a fresh encoder for the input B: the code points of one
\* update call followed by the code point of finish.
EncodeStream(B) ==
    LET r == BaseHanEncoder_update(BaseHanEncoder_new, B)
    IN  r.out \o BaseHanEncoder_finish(r.enc)

\* The byte sequences other than B that agree with B except in their last
\* MaxTail bytes: B cut short, B with its end replaced, B extended.
Neighbours(B) ==
    LET tails == UNION {[1..n -> SmallBytes] : n \in 0..MaxTail}
        cuts == {m \in 0..Len(B) : m >= Len(B) - MaxTail}
    IN  {SubSeq(B, 1, m) \o t : m \in cuts, t \in tails} \ {B}

\* C11 -- Unambiguous framing: no byte sequence other than the input encodes
\* (update, then finish) to the stream of the input. Stated for the
\* sequences that differ from the input in their last bytes.
UnambiguousFraming ==
    (phase = "dec" /\ lastRes = "none") =>
        \A B2 \in Neighbours(input) : EncodeStream(B2) # wire

\* C13 -- Bit-buffer invariant: after every fill call the encoder's cache
\* holds 0..12 bits and a value below 2^nbits, the decoder's cache holds
\* 0..7 bits and a value below 2^nbits, and the `13..` arm of
\* BitCache13::fill is never reached, neither by a call made nor by the
\* call any next byte would make.
BitBufferInvariant ==
    /\ ~crashed
    /\ encoder.remainings.nbits \in 0..12
    /\ encoder.remainings.inner < Pow2(encoder.remainings.nbits)
    /\ \A b \in SmallBytes : ~BitCache13_fill(encoder.remainings, b).panic
    /\ decoder.remainings.nbits \in 0..7
    /\ decoder.remainings.inner < Pow2(decoder.remainings.nbits)

\* Both caches full to their bounds: the encoder holds twelve 1 bits after
\* eight bytes 0xFF, the decoder seven 1 bits after three of their symbols.
BitBufferInvariantWitness ==
    /\ Len(input) = 8
    /\ encoder.remainings = [inner |-> 4095, nbits |-> 12]
    /\ pos = 3
    /\ decoder.remainings = [inner |-> 127, nbits |-> 7]

\* The k-bit string of x, most significant bit first.
RECURSIVE Bits(_, _)
Bits(x, k) ==
    IF k = 0 THEN <<>> ELSE Bits(x \div 2, k - 1) \o <<x % 2>>

\* The bit string of a sequence of values, k bits each.
RECURSIVE BitString(_, _)
BitString(s, k) ==
    IF s = <<>> THEN <<>>
    ELSE Bits(Head(s), k) \o BitString(Tail(s), k)

\* The 13-bit value of each ordinary symbol of s.
SymbolValues(s) == [i \in 1..Len(s) |-> s[i] - BASE_OFFSET]

\* C14 -- Encoder bit-stream fidelity: the 13-bit values of the ordinary
\* symbols emitted, each most significant bit first, followed by the low
\* nbits bits of the cache, are the bit string of the bytes consumed; and
\* fill emits a symbol exactly when nbits + 8 >= 13 before the call.
EncoderBitStream ==
    Encoding =>
        /\ \A i \in 1..Len(encOut) : encOut[i] - BASE_OFFSET \in 0..8191
        /\ BitString(SymbolValues(encOut), 13)
               \o Bits(LowBits(encoder.remainings.inner,
                               encoder.remainings.nbits),
                       encoder.remainings.nbits)
           = BitString(input, 8)
        /\ \A b \in SmallBytes :
               BitCache13_fill(encoder.remainings, b).out # <<>>
                   <=> encoder.remainings.nbits + 8 >= 13

\* Fourteen bytes whose value changes inside a symbol: eight symbols are out
\* and eight bits are left in the cache.
EncoderBitStreamWitness ==
    /\ phase = "enc"
    /\ Len(input) = 14
    /\ input[1] # input[14]
    /\ Len(encOut) = 8
    /\ encoder.remainings.nbits = 8

\* C15 -- Decoder prefix correctness on ordinary symbols: a fresh decoder
\* fed the first pos ordinary symbols of the stream has output the first
\* floor(13 * pos / 8) bytes of the input and retains the next
\* (13 * pos) mod 8 bits of the input; the next push emits one byte when
\* nbits <= 2 and two bytes otherwise.
DecoderPrefix ==
    OrdinaryPrefix =>
        LET m == (13 * pos) \div 8
            d == (13 * pos) % 8
        IN  /\ decOut = SubSeq(input, 1, m)
            /\ decoder.remainings.nbits = d
            /\ decoder.remainings.inner =
                   (IF d = 0 THEN 0 ELSE Shr(input[m + 1], 8 - d))
            /\ \A v \in {0, 5461, 8191} :
                   Len(BitCache8_fill(decoder.remainings, v).out) =
                       (IF decoder.remainings.nbits <= 2 THEN 1 ELSE 2)

\* Three symbols of an eight-byte input whose value changes in the fifth
\* byte: four bytes are out and the top seven bits of the fifth retained.
DecoderPrefixWitness ==
    /\ OrdinaryPrefix
    /\ Len(input) = 8
    /\ input[4] # input[5]
    /\ pos = 3
    /\ Len(decOut) = 4
    /\ decoder.remainings = [inner |-> Shr(input[5], 1), nbits |-> 7]

\* The decoder has consumed every ordinary symbol of the encoder's stream
\* and nothing else: the next scalar of the stream is the terminal symbol.
AtTerminal == OrdinaryPrefix /\ pos = Len(encOut)

\* The value BaseHanDecoder::update feeds to BitCache8::fill for the
\* terminal symbol of the stream: (c - ENDING_OFFSET) << (nbits + 5).
TerminalValue ==
    Shl(wire[Len(wire)] - ENDING_OFFSET, decoder.remainings.nbits + 5)

\* C16 -- Terminal alignment: the value fed to BitCache8::fill for the
\* terminal symbol of an encoder's stream is below 2^13 and is the
\* encoder's leftover bits left-aligned in a 13-bit field.
TerminalAlignment ==
    AtTerminal =>
        /\ TerminalValue < Pow2(13)
        /\ TerminalValue = encoder.remainings.inner
                               * Pow2(13 - encoder.remainings.nbits)

\* C17 -- The relationship assumed by the terminal shift: when the decoder
\* that consumed all ordinary symbols of an encoder's stream reaches the
\* terminal symbol, the encoder's leftover bit count and the decoder's bit
\* count add up to 8.
ShiftRelation ==
    AtTerminal => decoder.remainings.nbits + encoder.remainings.nbits = 8

\* What the code has instead of the relationship of C17: at the terminal
\* symbol the two bit counts
\* add up to 0 when the input length is a multiple of 13, to 16 when the
\* length is 3, 6, 8 or 11 modulo 13, and to 8 for every other length.
ShiftRelationByLength ==
    AtTerminal =>
        decoder.remainings.nbits + encoder.remainings.nbits =
            (IF Len(input) % 13 = 0 THEN 0
             ELSE IF Len(input) % 13 \in {3, 6, 8, 11} THEN 16
             ELSE 8)

\* A length of the second kind in the second 13-byte cycle: 21 bytes, 12
\* symbols consumed, 4 bits in the decoder and 12 left in the encoder.
ShiftRelationByLengthWitness ==
    /\ AtTerminal
    /\ Len(input) = 21
    /\ pos = 12
    /\ decoder.remainings.nbits = 4
    /\ encoder.remainings.nbits = 12

\* The step is an update call of DecSpec: its chunk is wire[pos + 1 .. pos'].
IsFeed == phase = "dec" /\ phase' = "dec"

\* The position of the first scalar 0 of s at or after i, 0 when none.
RECURSIVE FirstZero(_, _)
FirstZero(s, i) ==
    IF i > Len(s) THEN 0
    ELSE IF s[i] = 0 THEN i
    ELSE FirstZero(s, i + 1)

\* C18 -- Zero scalar as chunk terminator: on a decoder that is not closed,
\* update on a chunk whose first scalar 0 is at position i returns without
\* error and leaves the decoder (bit cache, closed flag) and the returned
\* bytes as update on the first i scalars of the chunk does; no scalar after
\* the 0 is consumed.
ZeroEndsChunk ==
    [][LET chunk == SubSeq(wire, pos + 1, pos')
           i == FirstZero(chunk, 1)
           short == BaseHanDecoder_update(decoder, SubSeq(chunk, 1, i))
       IN  (IsFeed /\ pos' > pos /\ ~decoder.eof /\ i > 0) =>
               /\ lastRes' = "ok" /\ short.res = "ok"
               /\ decoder' = short.dec
               /\ decOut' = decOut \o short.out
               /\ BaseHanDecoder_update(decoder, chunk).consumed < i
    ]_vars

\* The text is an ordinary symbol, a 0 and an ordinary symbol; all of it
\* was passed in chunks of at most two scalars, and the decoder, open, has
\* returned one byte: the symbol behind the 0 was not consumed.
ZeroEndsChunkWitness ==
    /\ phase = "dec"
    /\ wire = <<BASE_OFFSET + 1, 0, BASE_OFFSET + 8191>>
    /\ pos = 3
    /\ lastRes = "ok"
    /\ ~decoder.eof
    /\ Len(decOut) = 1
    /\ decoder.remainings.nbits = 5

\* C19 -- Order of the per-scalar checks: on a closed decoder an update call
\* with an empty chunk, or with a chunk whose first scalar is 0, returns an
\* empty byte sequence without error.
ClosedAcceptsNothing ==
    [][(/\ IsFeed /\ decoder.eof
        /\ pos' = pos \/ wire[pos + 1] = 0) =>
           lastRes' = "ok" /\ decOut' = decOut
    ]_vars

\* C19, as the code has it -- the closed flag is checked once, on entry to
\* update and before the loop over the scalars: on a closed decoder every
\* update call fails with EndOfFile, also one with an empty chunk or with a
\* chunk whose first scalar is 0, and returns no byte.
ClosedRejectsEveryCall ==
    [][(IsFeed /\ decoder.eof) =>
           lastRes' = "err" /\ decOut' = decOut /\ decoder' = decoder
    ]_vars

\* The text is a terminal symbol and a 0, all of it passed to the decoder,
\* and the last call failed: that call was made on the closed decoder with
\* the chunk <<0>> or, after <<terminal, 0>>, with the empty chunk.
ClosedRejectsEveryCallWitness ==
    /\ phase = "dec"
    /\ wire = <<ENDING_OFFSET + 255, 0>>
    /\ pos = 2
    /\ decoder.eof
    /\ lastRes = "err"
    /\ decOut = <<255>>

\* C20 -- Decoder chunk invariance: when a text of nonzero scalars (ordinary
\* and terminal symbols in any order) has been passed to a fresh decoder in
\* consecutive non-empty chunks, the bytes returned, the outcome (Ok or
\* EndOfFile) and the final bit cache and closed flag are those of one
\* update call on the whole text passed so far.
DecoderChunkInvariance ==
    [][LET S == SubSeq(wire, 1, pos')
           one == BaseHanDecoder_update(BaseHanDecoder_new, S)
       IN  (/\ IsFeed /\ pos' > pos /\ lastRes # "err"
            /\ FirstZero(S, 1) = 0) =>
               /\ decOut' = one.out
               /\ lastRes' = one.res
               /\ decoder' = one.dec
    ]_vars

\* C12 -- Decode driver: whatever sizes the reads from stdin return, no read
\* boundary splits a scalar of the text: the nonzero scalars passed to
\* BaseHanDecoder::update are the scalars of the text, in order, and all of
\* them once the text is read to its end.
DriverKeepsScalars ==
    /\ IsPrefix(received, wire)
    /\ nread = Len(Utf8Text(wire)) => received = wire

====
